---- MODULE Spec2Model ----
(***************************************************************************)
(* The PHS / LYRA2 orchestration of src/Lyra2/src/cuda/Lyra2.cu as a state *)
(* machine: one call, from the entry point to its return.  Every statement *)
(* group of LYRA2 (a CUDA or libc call with the error check that follows   *)
(* it) is one action.  The sponge kernels live outside this file and are   *)
(* abstracted as deterministic functions of a small digest; the state is   *)
(* kept for two runs of the same call (Runs) that share the control flow   *)
(* and differ only in what memory outside an allocation holds.             *)
(***************************************************************************)
EXTENDS Integers, Sequences, FiniteSets, TLC

\* ------------------------------------------------------------ constants
N_COLS == 64
BLOCK_LEN_INT64 == 8
WORD_BYTES == 8
INT_BYTES == 4
BLOCK_LEN_BYTES == BLOCK_LEN_INT64 * WORD_BYTES
ROW_LEN_INT64 == BLOCK_LEN_INT64 * N_COLS
ROW_LEN_BYTES == ROW_LEN_INT64 * WORD_BYTES
BASIL_BYTES == 6 * INT_BYTES
INT_MAX == (2^30 - 1) + 2^30
INT_MIN == -INT_MAX - 1
LIMB == 2^16

\* Largest value a word of uninitialised / out-of-allocation memory is drawn from.
MaxGarbage == 1
Garbage == 0..MaxGarbage
Runs == {1, 2}

\* ------------------------------------------------- integer conversions
\* size_t and unsigned int values are little-endian sequences of 16-bit limbs
\* (four limbs for a 64-bit size_t, two for a 32-bit unsigned int).
Limbs(lo, mid, hi) == <<lo, mid, hi, 0>>
Limbs32(lo, mid) == <<lo, mid>>

\* Conversion of an unsigned value to int: the low 32 bits, read as two's complement.
ToInt(u) ==
    IF u[2] >= LIMB \div 2 THEN (u[2] - LIMB) * LIMB + u[1] ELSE u[2] * LIMB + u[1]

\* The unsigned value u is the mathematical integer n.
SameValue(u, n) ==
    /\ n >= 0
    /\ \A k \in 3..Len(u) : u[k] = 0
    /\ u[2] < LIMB \div 2
    /\ u[2] * LIMB + u[1] = n

\* int + int leaves the range of int (signed overflow).
AddOverflows(a, b) ==
    \/ (b > 0 /\ a > INT_MAX - b)
    \/ (b < 0 /\ a < INT_MIN - b)

\* int * ROW_LEN_BYTES leaves the range of int.
MulRowOverflows(n) ==
    \/ n > INT_MAX \div ROW_LEN_BYTES
    \/ n < -(INT_MAX \div ROW_LEN_BYTES) - 1

\* n * ROW_LEN_BYTES wrapped to 32 bits, read as two's complement.
WrapMulRow(n) ==
    LET q == (INT_MAX \div ROW_LEN_BYTES + 1) * 2
        m == n % q
    IN  IF m >= q \div 2 THEN (m - q) * ROW_LEN_BYTES ELSE m * ROW_LEN_BYTES

\* --------------------------------------------------------------- inputs
KLenArgs == {0, 32}
PwdLenArgs == {8, 4000, INT_MAX}
SaltLenArgs == {16, 31, 72, 96, 97}
TimeCostArgs == {0, 1}
NRowsArgs == {0, 1, 2, 3}
NColsArgs == {32, N_COLS}

LYRA2Args ==
    [kLen : KLenArgs, pwdlen : PwdLenArgs, saltlen : SaltLenArgs,
     timeCost : TimeCostArgs, nRows : NRowsArgs, nCols : NColsArgs]

PHSArgs ==
    [outlen  : {Limbs(32, 0, 0), Limbs(32, 0, 1)},
     inlen   : {Limbs(8, 0, 0), Limbs(8, 0, 1)},
     saltlen : {Limbs(16, 0, 0)},
     t_cost  : {Limbs32(1, 0), Limbs32(LIMB - 1, LIMB - 1)},
     m_cost  : {Limbs32(0, 0), Limbs32(2, 0), Limbs32(0, LIMB \div 2)}]

\* The bytes of the caller's password and salt.
PwdByte(k) == 97 + (k % 26)
SaltByte(k) == 48 + (k % 10)

\* ---------------------------------------------------------------- state
Resources == {"MemMatrixDev", "stateHost", "stateDev", "rowADev", "MemMatrixHost"}
DeviceResources == {"MemMatrixDev", "stateDev", "rowADev"}

VARIABLES
    entry,        \* "PHS" or "LYRA2": the entry point the caller used
    args,         \* the caller's arguments
    kLen, pwdlen, saltlen, timeCost, nRows, nCols,   \* LYRA2's parameters
    pc,           \* position in the call
    ret,          \* "none" | "0" | "-1": the value returned
    failedAt,     \* the step whose failure made the call return -1
    ptr,          \* value of each pointer variable: "indet", "NULL" or an allocation
    acquired,     \* per allocation: number of successful acquisitions
    released,     \* per allocation: number of cudaFree/free calls on its address
    relLog,       \* the cudaFree/free calls made: <<variable, value passed>>
    allocCalls,   \* number of cudaMalloc/malloc calls made
    outside,      \* per run: what memory outside this call's allocations holds
    lastError,    \* CUDA's sticky error flag, read and reset by cudaGetLastError
    allocRows,    \* whole rows inside the device matrix allocation
    MatrixDev,    \* per run: contents of each allocated row of the device matrix
    stateDevMem,  \* "uninit" | "zero" | "live": what the device sponge state holds
    hostBuf,      \* "uninit" | "zero" | "padded": what MemMatrixHost holds
    hostOOB,      \* staging wrote outside MemMatrixHost
    devOOBRead,   \* a kernel was pointed at input outside the device matrix
    devOOBWrite,  \* a kernel was pointed at output outside the device matrix
    nBlocksInput, \* number of blocks of padded input
    i,            \* loop counter of the absorbing loop
    sponge,       \* per run: digest of the sponge state
    rowaDev,      \* per run: *rowADev
    rowaCPU,      \* per run: rowaCPU
    K,            \* per run: the caller's output buffer
    calls         \* the sponge-engine invocations made: <<operation, argument>>

vars ==
    <<entry, args, kLen, pwdlen, saltlen, timeCost, nRows, nCols, pc, ret, failedAt,
      ptr, acquired, released, relLog, allocCalls, outside, lastError, allocRows, MatrixDev,
      stateDevMem, hostBuf, hostOOB, devOOBRead, devOOBWrite, nBlocksInput, i,
      sponge, rowaDev, rowaCPU, K, calls>>

params == <<entry, args, kLen, pwdlen, saltlen, timeCost, nRows, nCols, outside>>
heap == <<ptr, acquired, released, relLog, allocCalls>>
memory == <<allocRows, MatrixDev, stateDevMem, hostBuf, hostOOB>>
engine == <<devOOBRead, devOOBWrite, nBlocksInput, i, sponge, rowaDev, rowaCPU, K, calls>>

Unwritten == [written |-> FALSE, len |-> 0, val |-> 0]

Init ==
    /\ entry \in {"PHS", "LYRA2"}
    /\ args \in (IF entry = "PHS" THEN PHSArgs ELSE LYRA2Args)
    /\ kLen = 0 /\ pwdlen = 0 /\ saltlen = 0
    /\ timeCost = 0 /\ nRows = 0 /\ nCols = 0
    /\ pc = "entry"
    /\ ret = "none"
    /\ failedAt = "none"
    /\ ptr = [r \in Resources |-> "indet"]
    /\ acquired = [r \in Resources |-> 0]
    /\ released = [r \in Resources |-> 0]
    /\ relLog = <<>>
    /\ allocCalls = 0
    /\ outside \in [Runs -> Garbage]
    /\ lastError = FALSE
    /\ allocRows = 0
    /\ MatrixDev = [u \in Runs |-> <<>>]
    /\ stateDevMem = "uninit"
    /\ hostBuf = "uninit"
    /\ hostOOB = FALSE
    /\ devOOBRead = FALSE
    /\ devOOBWrite = FALSE
    /\ nBlocksInput = 0
    /\ i = 0
    /\ sponge = [u \in Runs |-> 0]
    /\ rowaDev = [u \in Runs |-> 0]
    /\ rowaCPU = [u \in Runs |-> 0]
    /\ K = [u \in Runs |-> Unwritten]
    /\ calls = <<>>

\* ------------------------------------------------------------ entries
\* PHS: the size_t and unsigned arguments are converted to LYRA2's int parameters.
PHS ==
    /\ pc = "entry" /\ entry = "PHS"
    /\ kLen' = ToInt(args.outlen)
    /\ pwdlen' = ToInt(args.inlen)
    /\ saltlen' = ToInt(args.saltlen)
    /\ timeCost' = ToInt(args.t_cost)
    /\ nRows' = ToInt(args.m_cost)
    /\ nCols' = N_COLS
    /\ pc' = "check"
    /\ UNCHANGED <<entry, args, outside, ret, failedAt, lastError>>
    /\ UNCHANGED <<heap, memory, engine>>

\* A direct call of LYRA2 with int arguments.
LYRA2 ==
    /\ pc = "entry" /\ entry = "LYRA2"
    /\ kLen' = args.kLen
    /\ pwdlen' = args.pwdlen
    /\ saltlen' = args.saltlen
    /\ timeCost' = args.timeCost
    /\ nRows' = args.nRows
    /\ nCols' = args.nCols
    /\ pc' = "check"
    /\ UNCHANGED <<entry, args, outside, ret, failedAt, lastError>>
    /\ UNCHANGED <<heap, memory, engine>>

\* ------------------------------------------------------ release helpers
\* The value a pointer variable passes to cudaFree/free; w stands for the value
\* of a variable that was never assigned.
Resolve(p, v, w) == IF p[v] = "indet" THEN w ELSE p[v]

\* What an unassigned device pointer can hold: null, an address that is no
\* allocation, or (a stale value) the address of a device allocation of this call.
IndetValues == {"NULL", "wild"} \cup {r \in DeviceResources : acquired[r] = 1}

\* cudaFree/free applied, in order, to the pointer variables vs.
RECURSIVE FreeSeq(_, _, _, _, _)
FreeSeq(p, vs, w, rel, log) ==
    IF vs = <<>> THEN [released |-> rel, relLog |-> log]
    ELSE LET v == Head(vs)
             t == Resolve(p, v, w)
             rel2 == IF t \in Resources THEN [rel EXCEPT ![t] = @ + 1] ELSE rel
         IN  FreeSeq(p, Tail(vs), w, rel2, Append(log, <<v, t>>))

\* An error branch: the frees vs, the assignments of NULL to nulled, return -1.
Fail(step, p, vs, nulled) ==
    /\ \E w \in IndetValues :
          LET f == FreeSeq(p, vs, w, released, relLog)
          IN  /\ released' = f.released
              /\ relLog' = f.relLog
    /\ ptr' = [r \in Resources |-> IF r \in nulled THEN "NULL" ELSE p[r]]
    /\ failedAt' = step
    /\ ret' = "-1"
    /\ pc' = "done"

\* The frees of the success path, the assignments of NULL, return 0.
Succeed(p, vs, nulled) ==
    /\ LET f == FreeSeq(p, vs, "wild", released, relLog)
       IN  /\ released' = f.released
           /\ relLog' = f.relLog
    /\ ptr' = [r \in Resources |-> IF r \in nulled THEN "NULL" ELSE p[r]]
    /\ ret' = "0"
    /\ pc' = "done"
    /\ UNCHANGED failedAt

\* ------------------------------------------------- precondition check
\* pwdlen + saltlen > ROW_LEN_BYTES, computed in int: the outcomes of the
\* comparison (both, when the sum overflows).
TooLargeOutcomes ==
    IF AddOverflows(pwdlen, saltlen) THEN BOOLEAN
    ELSE {pwdlen + saltlen > ROW_LEN_BYTES}

CheckLimits ==
    /\ pc = "check"
    /\ \E tooLarge \in TooLargeOutcomes :
          IF tooLarge
          THEN /\ ret' = "-1" /\ failedAt' = "check" /\ pc' = "done"
          ELSE /\ pc' = "allocMatrix" /\ UNCHANGED <<ret, failedAt>>
    /\ UNCHANGED <<params, lastError>>
    /\ UNCHANGED <<heap, memory, engine>>

\* ------------------------------------------------------- acquisitions
UninitRow == [kind |-> "uninit", v |-> 0]
ZeroRow == [kind |-> "zero", v |-> 0]
StagedRow == [kind |-> "staged", v |-> 0]
EngineRow(d) == [kind |-> "engine", v |-> d]

\* nRows * ROW_LEN_BYTES, computed in int; -1 stands for a result that converts
\* to a size_t no allocation can satisfy.
MatrixSizes ==
    IF MulRowOverflows(nRows) THEN {WrapMulRow(nRows), -1}
    ELSE {nRows * ROW_LEN_BYTES}

\* Lines 92-100: cudaMalloc of the device matrix.
AllocMatrix ==
    /\ pc = "allocMatrix"
    /\ allocCalls' = allocCalls + 1
    /\ \E size \in MatrixSizes, ok \in BOOLEAN :
          IF ok /\ size >= 0 /\ ~lastError
          THEN /\ ptr' = [ptr EXCEPT !["MemMatrixDev"] = "MemMatrixDev"]
               /\ acquired' = [acquired EXCEPT !["MemMatrixDev"] = @ + 1]
               /\ allocRows' = size \div ROW_LEN_BYTES
               /\ MatrixDev' =
                     [u \in Runs |-> [r \in 0..(size \div ROW_LEN_BYTES) - 1 |-> UninitRow]]
               /\ pc' = "clearMatrix"
               /\ UNCHANGED <<released, relLog, ret, failedAt>>
          ELSE /\ Fail("allocMatrix", ptr, <<"MemMatrixDev">>, {"MemMatrixDev"})
               /\ UNCHANGED <<acquired, allocRows, MatrixDev>>
    /\ lastError' = FALSE
    /\ UNCHANGED <<params, stateDevMem, hostBuf, hostOOB, engine>>

\* Lines 102-110: cudaMemset of the device matrix.
ClearMatrix ==
    /\ pc = "clearMatrix"
    /\ \E ok \in BOOLEAN :
          IF ok /\ ~lastError
          THEN /\ MatrixDev' = [u \in Runs |-> [r \in 0..allocRows - 1 |-> ZeroRow]]
               /\ pc' = "allocStateHost"
               /\ UNCHANGED <<ptr, released, relLog, ret, failedAt>>
          ELSE /\ \E done \in BOOLEAN :
                     MatrixDev' = IF done
                                  THEN [u \in Runs |-> [r \in 0..allocRows - 1 |-> ZeroRow]]
                                  ELSE MatrixDev
               /\ Fail("clearMatrix", ptr, <<"MemMatrixDev">>, {"MemMatrixDev"})
    /\ lastError' = FALSE
    /\ UNCHANGED <<params, acquired, allocCalls, allocRows, stateDevMem, hostBuf, hostOOB, engine>>

\* Lines 112-122: malloc of the host sponge state.
AllocStateHost ==
    /\ pc = "allocStateHost"
    /\ allocCalls' = allocCalls + 1
    /\ \E ok \in BOOLEAN :
          IF ok
          THEN /\ ptr' = [ptr EXCEPT !["stateHost"] = "stateHost"]
               /\ acquired' = [acquired EXCEPT !["stateHost"] = @ + 1]
               /\ pc' = "allocStateDev"
               /\ UNCHANGED <<released, relLog, ret, failedAt>>
          ELSE /\ Fail("allocStateHost", [ptr EXCEPT !["stateHost"] = "NULL"],
                       <<"MemMatrixDev", "stateHost">>, {"MemMatrixDev"})
               /\ UNCHANGED acquired
    /\ UNCHANGED <<params, lastError, memory, engine>>

\* Lines 124-137: cudaMalloc of the device sponge state.
AllocStateDev ==
    /\ pc = "allocStateDev"
    /\ allocCalls' = allocCalls + 1
    /\ \E ok \in BOOLEAN :
          IF ok /\ ~lastError
          THEN /\ ptr' = [ptr EXCEPT !["stateDev"] = "stateDev"]
               /\ acquired' = [acquired EXCEPT !["stateDev"] = @ + 1]
               /\ pc' = "clearStateDev"
               /\ UNCHANGED <<released, relLog, ret, failedAt>>
          ELSE /\ Fail("allocStateDev", ptr, <<"MemMatrixDev", "stateHost", "stateDev">>,
                       {"MemMatrixDev", "stateDev"})
               /\ UNCHANGED acquired
    /\ lastError' = FALSE
    /\ UNCHANGED <<params, memory, engine>>

\* Lines 139-150: cudaMemset of the device sponge state.
ClearStateDev ==
    /\ pc = "clearStateDev"
    /\ \E ok \in BOOLEAN :
          IF ok /\ ~lastError
          THEN /\ stateDevMem' = "zero"
               /\ pc' = "allocRowa"
               /\ UNCHANGED <<ptr, released, relLog, ret, failedAt>>
          ELSE /\ stateDevMem' \in {stateDevMem, "zero"}
               /\ Fail("clearStateDev", ptr, <<"stateHost", "stateDev", "MemMatrixDev">>,
                       {"MemMatrixDev", "stateDev"})
    /\ lastError' = FALSE
    /\ UNCHANGED <<params, acquired, allocCalls, allocRows, MatrixDev, hostBuf, hostOOB, engine>>

\* Lines 152-166: cudaMalloc of the row index.
AllocRowa ==
    /\ pc = "allocRowa"
    /\ allocCalls' = allocCalls + 1
    /\ \E ok \in BOOLEAN :
          IF ok /\ ~lastError
          THEN /\ ptr' = [ptr EXCEPT !["rowADev"] = "rowADev"]
               /\ acquired' = [acquired EXCEPT !["rowADev"] = @ + 1]
               /\ rowaDev' = outside
               /\ pc' = "clearRowa"
               /\ UNCHANGED <<released, relLog, ret, failedAt>>
          ELSE /\ Fail("allocRowa", ptr,
                       <<"stateHost", "stateDev", "MemMatrixDev", "rowADev">>,
                       {"MemMatrixDev", "stateDev", "rowADev"})
               /\ UNCHANGED <<acquired, rowaDev>>
    /\ lastError' = FALSE
    /\ UNCHANGED <<params, memory>>
    /\ UNCHANGED <<devOOBRead, devOOBWrite, nBlocksInput, i, sponge, rowaCPU, K, calls>>

\* Lines 168-180: cudaMemset of the row index.
ClearRowa ==
    /\ pc = "clearRowa"
    /\ \E ok \in BOOLEAN :
          IF ok /\ ~lastError
          THEN /\ rowaDev' = [u \in Runs |-> 0]
               /\ pc' = "allocHost"
               /\ UNCHANGED <<ptr, released, relLog, ret, failedAt>>
          ELSE /\ rowaDev' \in {rowaDev, [u \in Runs |-> 0]}
               /\ Fail("clearRowa", ptr,
                       <<"stateHost", "stateDev", "MemMatrixDev", "rowADev">>,
                       {"MemMatrixDev", "stateDev", "rowADev"})
    /\ lastError' = FALSE
    /\ UNCHANGED <<params, acquired, allocCalls, memory>>
    /\ UNCHANGED <<devOOBRead, devOOBWrite, nBlocksInput, i, sponge, rowaCPU, K, calls>>

\* Lines 183-200: malloc and memset of the host staging buffer.
AllocMemMatrixHost ==
    /\ pc = "allocHost"
    /\ allocCalls' = allocCalls + 1
    /\ \E ok \in BOOLEAN :
          IF ok
          THEN /\ ptr' = [ptr EXCEPT !["MemMatrixHost"] = "MemMatrixHost"]
               /\ acquired' = [acquired EXCEPT !["MemMatrixHost"] = @ + 1]
               /\ hostBuf' = "zero"
               /\ pc' = "pad"
               /\ UNCHANGED <<released, relLog, ret, failedAt>>
          ELSE /\ Fail("allocHost", [ptr EXCEPT !["MemMatrixHost"] = "NULL"],
                       <<"stateHost", "stateDev", "MemMatrixDev", "rowADev", "MemMatrixHost">>,
                       {"MemMatrixDev", "stateDev", "rowADev"})
               /\ UNCHANGED <<acquired, hostBuf>>
    /\ UNCHANGED <<params, lastError, allocRows, MatrixDev, stateDevMem, hostOOB, engine>>

\* ----------------------------------------------- padding and staging
\* Byte j (0 = least significant) of the int v as stored in memory.
ByteOf(v, j) ==
    IF v >= 0 THEN (v \div 256^j) % 256
    ELSE 255 - (((-v - 1) \div 256^j) % 256)

\* The basil: kLen, pwdlen, saltlen, timeCost, nRows, nCols, INT_BYTES bytes each.
Basil == <<kLen, pwdlen, saltlen, timeCost, nRows, nCols>>
BasilByte(k) == ByteOf(Basil[(k \div INT_BYTES) + 1], k % INT_BYTES)

\* Line 203: the number of blocks of pwd || salt || basil, plus one.
NBlocksInput == ((saltlen + pwdlen + BASIL_BYTES) \div BLOCK_LEN_BYTES) + 1

\* Offsets of the two padding marks (lines 229-232).
FirstPadOffset == pwdlen + saltlen + BASIL_BYTES
LastPadOffset == NBlocksInput * BLOCK_LEN_BYTES - 1

Xor1(b) == IF b % 2 = 0 THEN b + 1 ELSE b - 1

\* Lines 200-232: the byte the staging code leaves at an offset.
StagedByte(off) ==
    LET before ==
          IF off < pwdlen THEN PwdByte(off)
          ELSE IF off < pwdlen + saltlen THEN SaltByte(off - pwdlen)
          ELSE IF off < FirstPadOffset THEN BasilByte(off - pwdlen - saltlen)
          ELSE IF off = FirstPadOffset THEN 128
          ELSE 0
    IN  IF off = LastPadOffset THEN Xor1(before) ELSE before

\* The offsets the staging code writes after the memset.
StagingWrites == (0..FirstPadOffset) \cup {LastPadOffset}

\* The lengths cannot be staged at all: the memcpy lengths are negative or the
\* sum that passed the check is not the sum of the lengths.
LengthsUnusable == pwdlen < 0 \/ saltlen < 0 \/ AddOverflows(pwdlen, saltlen)

\* Lines 202-232: pwd || salt || basil || 10*1 is written to MemMatrixHost.
\* A write outside the ROW_LEN_BYTES of the buffer may end the process.
PadInput ==
    /\ pc = "pad"
    /\ IF LengthsUnusable
       THEN /\ hostOOB' = TRUE
            /\ pc' = "crash"
            /\ UNCHANGED <<hostBuf, nBlocksInput>>
       ELSE /\ nBlocksInput' = NBlocksInput
            /\ hostBuf' = "padded"
            /\ hostOOB' = (\E off \in {FirstPadOffset, LastPadOffset} : off >= ROW_LEN_BYTES)
            /\ \E crash \in (IF hostOOB' THEN BOOLEAN ELSE {FALSE}) :
                  pc' = IF crash THEN "crash" ELSE "copy"
    /\ UNCHANGED <<params, ret, failedAt, lastError, heap, allocRows, MatrixDev, stateDevMem>>
    /\ UNCHANGED <<devOOBRead, devOOBWrite, i, sponge, rowaDev, rowaCPU, K, calls>>

\* The four frees of every error branch from line 236 to line 342.
LateFrees == <<"stateHost", "stateDev", "MemMatrixDev", "rowADev">>
LateNulled == {"MemMatrixDev", "stateDev", "rowADev"}

\* Row r of the device matrix set to c in every run (outside the allocation:
\* nothing the model keeps).
WriteRow(M, r, c) ==
    [u \in Runs |-> [q \in DOMAIN M[u] |-> IF q = r THEN c[u] ELSE M[u][q]]]

\* Lines 234-248: the staged row is copied to row 0 of the device matrix, then
\* the host copy is cleared.
CopyToDevice ==
    /\ pc = "copy"
    /\ devOOBWrite' = (devOOBWrite \/ allocRows < 1)
    /\ \E ok \in BOOLEAN :
          IF ok /\ ~lastError
          THEN /\ MatrixDev' = WriteRow(MatrixDev, 0, [u \in Runs |-> StagedRow])
               /\ hostBuf' = "zero"
               /\ pc' = "initState"
               /\ UNCHANGED <<ptr, released, relLog, ret, failedAt>>
          ELSE /\ Fail("copy", ptr, LateFrees, LateNulled)
               /\ UNCHANGED <<MatrixDev, hostBuf>>
    /\ lastError' = FALSE
    /\ UNCHANGED <<params, acquired, allocCalls, allocRows, stateDevMem, hostOOB>>
    /\ UNCHANGED <<devOOBRead, nBlocksInput, i, sponge, rowaDev, rowaCPU, K, calls>>

\* ------------------------------------------------------ sponge engine
\* The permutation is outside this file: one deterministic mixing step.
Mix(s, v) == (s * 31 + v + 7) % 65521

RECURSIVE SumBytes(_, _)
SumBytes(off, n) ==
    IF n = 0 THEN 0 ELSE (StagedByte(off) * n + SumBytes(off + 1, n - 1)) % 65521

\* What block c of the staged row holds.
PaddedBlock(c) == SumBytes(c * BLOCK_LEN_BYTES, BLOCK_LEN_BYTES)

\* Block b (counted in blocks from MemMatrixDev) lies inside the allocation.
BlockInRange(b) == b >= 0 /\ b \div N_COLS < allocRows

\* What a kernel of run u reads at block b.
ReadBlock(u, b) ==
    IF ~BlockInRange(b) THEN 60000 + outside[u]
    ELSE LET row == MatrixDev[u][b \div N_COLS]
         IN  IF row.kind = "staged" THEN PaddedBlock(b % N_COLS)
             ELSE IF row.kind = "engine" THEN Mix(row.v, b % N_COLS)
             ELSE 0

\* Line 252: initState, a host function whose CUDA errors nobody reads here.
InitState ==
    /\ pc = "initState"
    /\ calls' = Append(calls, <<"initState", 0>>)
    /\ \E ok \in BOOLEAN : lastError' = (lastError \/ ~ok)
    /\ stateDevMem' = "live"
    /\ sponge' = [u \in Runs |-> 1]
    /\ i' = 0
    /\ pc' = "absorb"
    /\ UNCHANGED <<params, ret, failedAt, heap, allocRows, MatrixDev, hostBuf, hostOOB>>
    /\ UNCHANGED <<devOOBRead, devOOBWrite, nBlocksInput, rowaDev, rowaCPU, K>>

\* Lines 258-275: one iteration of the absorbing loop, on block i.
AbsorbInput ==
    /\ pc = "absorb"
    /\ calls' = Append(calls, <<"absorbBlock", i>>)
    /\ devOOBRead' = (devOOBRead \/ ~BlockInRange(i))
    /\ \E ok \in BOOLEAN :
          IF ok /\ ~lastError
          THEN /\ sponge' = [u \in Runs |-> Mix(sponge[u], ReadBlock(u, i))]
               /\ i' = i + 1
               /\ pc' = IF i + 1 < nBlocksInput THEN "absorb" ELSE "squeezeRow0"
               /\ UNCHANGED <<ptr, released, relLog, ret, failedAt>>
          ELSE /\ Fail("absorb", ptr, LateFrees, LateNulled)
               /\ UNCHANGED <<sponge, i>>
    /\ lastError' = FALSE
    /\ UNCHANGED <<params, acquired, allocCalls, memory>>
    /\ UNCHANGED <<devOOBWrite, nBlocksInput, rowaDev, rowaCPU, K>>

\* What *rowADev can hold after a row was written at row r: unchanged, or, when
\* the row lies outside the matrix allocation and the write lands on the
\* neighbouring device allocation, the word the kernel stored there.
RowaAfterRowWrite(r) ==
    IF r < allocRows THEN {rowaDev}
    ELSE {rowaDev, [u \in Runs |-> N_COLS + Mix(sponge[u], r)]}

\* reducedSqueezeRow on row r: the row is written from the state, which advances.
\* The launch is not followed by an error check.
SqueezeRow(r, next) ==
    /\ calls' = Append(calls, <<"reducedSqueezeRow", r>>)
    /\ devOOBWrite' = (devOOBWrite \/ r >= allocRows)
    /\ \E ok \in BOOLEAN : lastError' = (lastError \/ ~ok)
    /\ MatrixDev' = WriteRow(MatrixDev, r, [u \in Runs |-> EngineRow(Mix(sponge[u], r))])
    /\ rowaDev' \in RowaAfterRowWrite(r)
    /\ sponge' = [u \in Runs |-> Mix(sponge[u], 101)]
    /\ pc' = next
    /\ UNCHANGED <<params, ret, failedAt, heap, allocRows, stateDevMem, hostBuf, hostOOB>>
    /\ UNCHANGED <<devOOBRead, nBlocksInput, i, rowaCPU, K>>

\* A variant of line 279 that goes to setupGPU without initialising row 1.
SqueezeRow0Only == pc = "squeezeRow0" /\ SqueezeRow(0, "setup")

\* Line 279.
SqueezeRow0 == pc = "squeezeRow0" /\ SqueezeRow(0, "squeezeRow1")

\* Lines 280-281.
SqueezeRow1 == pc = "squeezeRow1" /\ SqueezeRow(1, "setup")

\* setupGPU: rows 2 .. nRows-1 are produced from the state.
SetupRows(M, s) ==
    [u \in Runs |->
        [q \in DOMAIN M[u] |-> IF q >= 2 /\ q < nRows THEN EngineRow(Mix(s[u], q)) ELSE M[u][q]]]

\* Lines 283-295: setupGPU and the first error check since the absorbing loop.
SetupGPU ==
    /\ pc = "setup"
    /\ calls' = Append(calls, <<"setupGPU", nRows>>)
    /\ \E ok \in BOOLEAN :
          IF ok /\ ~lastError
          THEN /\ MatrixDev' = SetupRows(MatrixDev, sponge)
               /\ sponge' = [u \in Runs |-> Mix(sponge[u], 102)]
               /\ pc' = "wandering"
               /\ UNCHANGED <<ptr, released, relLog, ret, failedAt>>
          ELSE /\ Fail("setup", ptr, LateFrees, LateNulled)
               /\ UNCHANGED <<MatrixDev, sponge>>
    /\ lastError' = FALSE
    /\ UNCHANGED <<params, acquired, allocCalls, allocRows, stateDevMem, hostBuf, hostOOB>>
    /\ UNCHANGED <<devOOBRead, devOOBWrite, nBlocksInput, i, rowaDev, rowaCPU, K>>

\* wandering: timeCost x nRows steps; each step derives rowa from the state.
WanderSteps == timeCost > 0 /\ nRows > 0
WanderState(s) == Mix(s, 103)
WanderRowa(s, old) == IF WanderSteps THEN WanderState(s) % nRows ELSE old

\* Lines 297-310.
Wandering ==
    /\ pc = "wandering"
    /\ calls' = Append(calls, <<"wandering", timeCost>>)
    /\ \E ok \in BOOLEAN :
          IF ok /\ ~lastError
          THEN /\ sponge' = [u \in Runs |-> IF WanderSteps THEN WanderState(sponge[u])
                                                           ELSE sponge[u]]
               /\ rowaDev' = [u \in Runs |-> WanderRowa(sponge[u], rowaDev[u])]
               /\ pc' = "recoverRowa"
               /\ UNCHANGED <<ptr, released, relLog, ret, failedAt>>
          ELSE /\ Fail("wandering", ptr, LateFrees, LateNulled)
               /\ UNCHANGED <<sponge, rowaDev>>
    /\ lastError' = FALSE
    /\ UNCHANGED <<params, acquired, allocCalls, memory>>
    /\ UNCHANGED <<devOOBRead, devOOBWrite, nBlocksInput, i, rowaCPU, K>>

\* Lines 312-325: rowa is copied back from the device.
RecoverRowa ==
    /\ pc = "recoverRowa"
    /\ \E ok \in BOOLEAN :
          IF ok /\ ~lastError
          THEN /\ rowaCPU' = rowaDev
               /\ pc' = "wrapup"
               /\ UNCHANGED <<ptr, released, relLog, ret, failedAt>>
          ELSE /\ Fail("recoverRowa", ptr, LateFrees, LateNulled)
               /\ UNCHANGED rowaCPU
    /\ lastError' = FALSE
    /\ UNCHANGED <<params, acquired, allocCalls, memory>>
    /\ UNCHANGED <<devOOBRead, devOOBWrite, nBlocksInput, i, sponge, rowaDev, K, calls>>

\* Block index of &MemMatrixDev[rowaCPU * ROW_LEN_INT64].
WrapUpBlock(u) == rowaCPU[u] * N_COLS

\* Lines 328-342: absorbBlock on the row rowa.
WrapUp ==
    /\ pc = "wrapup"
    /\ calls' = Append(calls, <<"absorbBlock", WrapUpBlock(1)>>)
    /\ LET oob == \E u \in Runs : ~BlockInRange(WrapUpBlock(u))
       IN  /\ devOOBRead' = (devOOBRead \/ oob)
           /\ \E ok \in BOOLEAN :
                 IF ok /\ ~lastError
                 THEN /\ sponge' = [u \in Runs |->
                                       Mix(sponge[u], ReadBlock(u, WrapUpBlock(u)))]
                      /\ pc' = "squeeze"
                      /\ UNCHANGED <<ptr, released, relLog, ret, failedAt>>
                 ELSE /\ Fail("wrapup", ptr, LateFrees, LateNulled)
                      /\ UNCHANGED sponge
    /\ lastError' = FALSE
    /\ UNCHANGED <<params, acquired, allocCalls, memory>>
    /\ UNCHANGED <<devOOBWrite, nBlocksInput, i, rowaDev, rowaCPU, K>>

\* What squeeze leaves in the caller's buffer: len bytes derived from the state.
Squeezed(s, len) == [written |-> TRUE, len |-> len, val |-> Mix(s, len)]

\* Lines 345-346: squeeze, a host function whose CUDA errors nobody reads here.
Squeeze ==
    /\ pc = "squeeze"
    /\ calls' = Append(calls, <<"squeeze", kLen>>)
    /\ \E ok \in BOOLEAN :
          /\ lastError' = (lastError \/ ~ok)
          /\ \E wrote \in (IF ok THEN {TRUE} ELSE BOOLEAN) :
                K' = IF wrote THEN [u \in Runs |-> Squeezed(sponge[u], kLen)] ELSE K
    /\ pc' = "free"
    /\ UNCHANGED <<params, ret, failedAt, heap, memory>>
    /\ UNCHANGED <<devOOBRead, devOOBWrite, nBlocksInput, i, sponge, rowaDev, rowaCPU>>

\* Lines 349-373: the matrix is freed, the sponge state is wiped, the rest is freed.
FreeMemory ==
    /\ pc = "free"
    /\ \E ok \in BOOLEAN :
          IF ok /\ ~lastError
          THEN /\ stateDevMem' = "zero"
               /\ Succeed(ptr,
                          <<"MemMatrixDev", "stateDev", "rowADev", "stateHost", "MemMatrixHost">>,
                          Resources)
          ELSE /\ stateDevMem' \in {stateDevMem, "zero"}
               /\ Fail("wipe", ptr,
                       <<"MemMatrixDev", "stateHost", "MemMatrixHost", "stateDev", "rowADev">>,
                       {})
    /\ lastError' = FALSE
    /\ UNCHANGED <<params, acquired, allocCalls, allocRows, MatrixDev, hostBuf, hostOOB, engine>>

Next ==
    \/ PHS
    \/ LYRA2
    \/ CheckLimits
    \/ AllocMatrix
    \/ ClearMatrix
    \/ AllocStateHost
    \/ AllocStateDev
    \/ ClearStateDev
    \/ AllocRowa
    \/ ClearRowa
    \/ AllocMemMatrixHost
    \/ PadInput
    \/ CopyToDevice
    \/ InitState
    \/ AbsorbInput
    \/ SqueezeRow0
    \/ SqueezeRow1
    \/ SetupGPU
    \/ Wandering
    \/ RecoverRowa
    \/ WrapUp
    \/ Squeeze
    \/ FreeMemory

Spec == Init /\ [][Next]_vars

\* ------------------------------------------------------------- claims
Returned == pc = "done"
PastCheck == pc \notin {"entry", "check"}
CallsOf(op) == {n \in 1..Len(calls) : calls[n][1] = op}
AcquisitionSteps ==
    {"allocMatrix", "clearMatrix", "allocStateHost", "allocStateDev",
     "clearStateDev", "allocRowa", "clearRowa", "allocHost"}

\* The call meets the interface's preconditions on its integer parameters:
\* kLen > 0, nRows > 0, lengths that are lengths (for PHS also timeCost > 0).
Preconditions ==
    /\ PastCheck
    /\ kLen > 0 /\ nRows > 0
    /\ pwdlen >= 0 /\ saltlen >= 0 /\ timeCost >= 0
    /\ entry = "PHS" => timeCost > 0

\* a + b > c over the mathematical integers, for b and c that fit an int.
SumExceeds(a, b, c) == a > c - b

\* C1: a LYRA2 call that meets the other preconditions and whose
\* pwdLen + saltLen exceeds ROW_LEN_BYTES returns -1 with no allocation made,
\* no sponge-engine operation invoked and no resource held.
C1_TooLargeRejectedUntouched ==
    (Preconditions /\ SumExceeds(pwdlen, saltlen, ROW_LEN_BYTES))
        => /\ ret = "-1"
           /\ allocCalls = 0
           /\ calls = <<>>
           /\ \A r \in Resources : acquired[r] = 0

\* C2: whenever a call that meets the preconditions returns -1, the output
\* buffer K has not been written and squeeze has not been invoked.
C2_FailureLeavesKUntouched ==
    (Preconditions /\ ret = "-1")
        => /\ \A u \in Runs : ~K[u].written
           /\ CallsOf("squeeze") = {}

\* The length n is the output length the caller asked for.
RequestedLength(n) ==
    IF entry = "PHS" THEN SameValue(args.outlen, n) ELSE args.kLen = n

\* C3: whenever a call that meets the preconditions returns 0, squeeze was
\* invoked exactly once, as the last engine operation and right after the
\* Wrap-up absorbBlock, and it wrote exactly the number of bytes the caller
\* requested (outlen for PHS, kLen for LYRA2).
C3_SuccessWritesRequestedLength ==
    (Preconditions /\ ret = "0")
        => /\ CallsOf("squeeze") = {Len(calls)}
           /\ Len(calls) >= 2 /\ calls[Len(calls) - 1][1] = "absorbBlock"
           /\ \A u \in Runs : K[u].written /\ RequestedLength(K[u].len)
           /\ RequestedLength(calls[Len(calls)][2])

\* C4: when an acquisition step of a call that meets the preconditions fails,
\* the call returns -1 and every resource acquired before that step has been
\* released exactly once.
C4_AcquisitionFailureBalanced ==
    (Preconditions /\ Returned /\ failedAt \in AcquisitionSteps)
        => /\ ret = "-1"
           /\ \A r \in Resources : acquired[r] = 1 => released[r] = 1

\* C5: on every exit path of a call that meets the preconditions reached with
\* all five resources acquired, each of the five has been released exactly
\* once at return.
C5_AllFiveReleasedOnce ==
    (Preconditions /\ Returned /\ \A r \in Resources : acquired[r] = 1)
        => \A r \in Resources : released[r] = 1

\* C6: at every return of a call that meets the preconditions the staging
\* buffer holds no password bytes and the device sponge state holds no live
\* state: both were zeroized before their release.
C6_SensitiveBuffersZeroized ==
    (Preconditions /\ Returned)
        => /\ hostBuf # "padded"
           /\ stateDevMem # "live"

\* C7: two runs of the same call, which meets the preconditions, that both
\* return 0 leave the same bytes in K.
C7_Deterministic ==
    (Preconditions /\ ret = "0") => K[1] = K[2]

ZeroValue(u) == \A k \in 1..Len(u) : u[k] = 0
InvalidParameters ==
    IF entry = "PHS"
    THEN ZeroValue(args.outlen) \/ ZeroValue(args.m_cost) \/ ZeroValue(args.t_cost)
    ELSE args.kLen <= 0 \/ args.nRows <= 0

\* C9: a call that violates kLen > 0 or nRows > 0 returns -1 without having
\* invoked any sponge-engine operation.
C9_InvalidParametersRejected ==
    (Returned /\ InvalidParameters) => (ret = "-1" /\ calls = <<>>)

\* C10: the int parameters LYRA2 receives from PHS have the values the caller
\* passed to PHS, and nCols is N_COLS.
C10_PHSForwardsUnchanged ==
    (entry = "PHS" /\ pc # "entry")
        => /\ SameValue(args.outlen, kLen)
           /\ SameValue(args.inlen, pwdlen)
           /\ SameValue(args.saltlen, saltlen)
           /\ SameValue(args.t_cost, timeCost)
           /\ SameValue(args.m_cost, nRows)
           /\ nCols = N_COLS

\* The engine invocations made before the first reducedSqueezeRow, without the
\* initState that opens them: the absorbBlock calls of the Absorbing phase.
FirstCallOf(op) ==
    IF CallsOf(op) = {} THEN Len(calls) + 1
    ELSE CHOOSE n \in CallsOf(op) : \A m \in CallsOf(op) : n <= m
AbsorbingCalls == SubSeq(calls, 2, FirstCallOf("reducedSqueezeRow") - 1)

\* floor((pwdLen + saltLen + sizeOf(basil)) / blockLenBytes) + 1, sizeOf(basil) = 24.
ExpectedBlocks == ((pwdlen + saltlen + 24) \div BLOCK_LEN_BYTES) + 1

\* C11: in a call that meets the preconditions, each block the Absorbing phase
\* is about to absorb is that block of the padded input (the additional block
\* of an exact multiple included), and on every return of 0 the Absorbing
\* phase has invoked absorbBlock exactly
\* floor((pwdLen + saltLen + 24) / blockLenBytes) + 1 times, on the
\* consecutive blocks 0, 1, 2, ... in order.
C11_PaddedBlocksAbsorbedInOrder ==
    Preconditions
        => /\ pc = "absorb" => \A u \in Runs : ReadBlock(u, i) = PaddedBlock(i)
           /\ ret = "0" =>
                 AbsorbingCalls = [n \in 1..ExpectedBlocks |-> <<"absorbBlock", n - 1>>]

\* The reference padding of password || salt || basil, byte by byte: L is the
\* length of the three parts and E the last byte of the last block.
ReferenceL == pwdlen + saltlen + 24
ReferenceE == ExpectedBlocks * BLOCK_LEN_BYTES - 1
ReferenceBasil == <<kLen, pwdlen, saltlen, timeCost, nRows, nCols>>
ReferenceByte(off) ==
    IF off < pwdlen THEN PwdByte(off)
    ELSE IF off < pwdlen + saltlen THEN SaltByte(off - pwdlen)
    ELSE IF off < ReferenceL
         THEN LET k == off - pwdlen - saltlen
              IN  (ReferenceBasil[(k \div 4) + 1] \div 256^(k % 4)) % 256
    ELSE IF off = ReferenceL /\ off = ReferenceE THEN 129
    ELSE IF off = ReferenceL THEN 128
    ELSE IF off = ReferenceE THEN 1
    ELSE 0

\* C12: once a call that meets the preconditions has staged its input, every
\* byte of the padded input, offsets 0 to E, is a byte of the staging buffer
\* and holds the reference padding: password, salt, the six integers (kLen,
\* pwdLen, saltLen, timeCost, nRows, nCols), 0x80 at L, zeroes, and the last
\* byte XOR 0x01 at E.
C12_StagedInputIsReferencePadding ==
    (Preconditions /\ pc = "copy")
        => \A off \in 0..ReferenceE :
              off < ROW_LEN_BYTES /\ StagedByte(off) = ReferenceByte(off)

\* The engine operations of a whole call with n blocks of padded input, in
\* the order of the phases.
PhaseOrder(n) ==
    <<"initState">> \o [k \in 1..n |-> "absorbBlock"]
        \o <<"reducedSqueezeRow", "reducedSqueezeRow", "setupGPU",
             "wandering", "absorbBlock", "squeeze">>
CallNames == [k \in 1..Len(calls) |-> calls[k][1]]
IsPrefix(s, t) == Len(s) <= Len(t) /\ s = SubSeq(t, 1, Len(s))

\* C13: at every point of every execution the engine operations invoked so
\* far are an initial part of: initState, the absorbBlock calls on the padded
\* input, reducedSqueezeRow on row 0, reducedSqueezeRow on row 1, setupGPU,
\* wandering, one Wrap-up absorbBlock, squeeze (so Setup runs once, after
\* Absorbing and before Wandering); a call that has returned 0 has made all
\* of them; a call that has returned has returned 0 or -1.
C13_PhaseOrder ==
    /\ IsPrefix(CallNames, PhaseOrder(nBlocksInput))
    /\ \A n \in CallsOf("reducedSqueezeRow") :
          calls[n][2] = n - FirstCallOf("reducedSqueezeRow")
    /\ ret = "0" => CallNames = PhaseOrder(nBlocksInput)
    /\ Returned => ret \in {"0", "-1"}

\* A call returned 0 after at least one Wandering step.
C13_Witness ==
    /\ ret = "0" /\ timeCost > 0
    /\ CallsOf("setupGPU") # {} /\ CallsOf("wandering") # {}

\* An operation has failed and the call has not yet read its error: CUDA's
\* error flag is set only by a failure and stays set until cudaGetLastError.
FailurePending == lastError

\* C14: in a call that meets the preconditions, once an operation has failed
\* no step invokes a further engine operation and no step returns 0.
C14_ImmediateUnwind ==
    [][(Preconditions /\ FailurePending) => (calls' = calls /\ ret' # "0")]_vars

\* C15: in a call that meets the preconditions, every cudaFree / free made so
\* far was applied to a pointer variable whose acquisition had succeeded; the
\* handle of an allocation that failed is never passed to a release.
C15_OnlyAcquiredReleased ==
    Preconditions => \A n \in 1..Len(relLog) : acquired[relLog[n][1]] = 1

\* Every release of the variable a comes before every release of the variable b.
ReleasedBefore(a, b) ==
    \A m, n \in 1..Len(relLog) : (relLog[m][1] = a /\ relLog[n][1] = b) => m < n

\* C16: the matrix is acquired before the sponge state and the sponge state
\* before the row-index storage, and at every return of a call that meets the
\* preconditions the ones that were acquired have been released in the
\* reverse order: row-index storage before sponge state, sponge state before
\* matrix.
C16_ReleaseReversesAcquisition ==
    (Preconditions /\ Returned)
        => /\ acquired["rowADev"] = 1 => acquired["stateDev"] = 1
           /\ acquired["stateDev"] = 1 => acquired["MemMatrixDev"] = 1
           /\ acquired["rowADev"] = 1 => ReleasedBefore("rowADev", "stateDev")
           /\ acquired["stateDev"] = 1 => ReleasedBefore("stateDev", "MemMatrixDev")

\* C17: no row of the device matrix is written before the whole matrix was
\* zeroed, and at every return of a call that meets the preconditions and
\* has released the matrix, no row still holds what was written to it: the
\* matrix was zeroed after its last write.
C17_MatrixWipedBeforeRelease ==
    Preconditions
        => /\ pc = "copy" => \A u \in Runs : \A r \in DOMAIN MatrixDev[u] :
                                MatrixDev[u][r].kind = "zero"
           /\ (Returned /\ released["MemMatrixDev"] >= 1)
                 => \A u \in Runs : \A r \in DOMAIN MatrixDev[u] :
                       MatrixDev[u][r].kind \notin {"staged", "engine"}

\* The absorbBlock invocations made after wandering: those of the Wrap-up.
WrapUpCalls == {n \in CallsOf("absorbBlock") : n > FirstCallOf("wandering")}

\* C18: in a call that meets the preconditions (timeCost >= 0, nRows > 0),
\* the row index read back from the device is in [0, nRows) when the Wrap-up
\* is about to use it; the Wrap-up invokes absorbBlock at most once, on the
\* first block of that row, and only in a call whose wandering and read-back
\* did not fail.
C18_WrapUpRowInRange ==
    Preconditions
        => /\ pc = "wrapup" => \A u \in Runs : rowaCPU[u] \in 0..(nRows - 1)
           /\ Cardinality(WrapUpCalls) <= 1
           /\ \A n \in WrapUpCalls :
                 /\ calls[n][2] = rowaCPU[1] * N_COLS
                 /\ \A u \in Runs : rowaCPU[u] \in 0..(nRows - 1)
                 /\ failedAt \notin {"wandering", "recoverRowa"}

\* C19: in a call that meets the preconditions and whose pwdLen + saltLen is
\* at most ROW_LEN_BYTES, every offset the staging code writes (password,
\* salt, basil, the 0x80 mark, the end mark) is in [0, ROW_LEN_BYTES), and
\* every block absorbed in the Absorbing phase ends inside the ROW_LEN_BYTES
\* that were copied to the device.
C19_PaddedInputFitsOneRow ==
    (Preconditions /\ ~SumExceeds(pwdlen, saltlen, ROW_LEN_BYTES))
        => /\ pc = "copy" => \A off \in StagingWrites : off \in 0..(ROW_LEN_BYTES - 1)
           /\ \A n \in 1..Len(AbsorbingCalls) :
                 (AbsorbingCalls[n][2] + 1) * BLOCK_LEN_BYTES <= ROW_LEN_BYTES

\* The row of the device matrix that block b lies in.
RowOfBlock(b) == b \div N_COLS

\* C20: in a call that meets the preconditions (nRows > 0), the staging copy,
\* every absorbBlock (input blocks and Wrap-up row) and every
\* reducedSqueezeRow have addressed only rows of the device matrix with an
\* index in [0, nRows).
C20_MatrixAccessesInRange ==
    Preconditions
        => /\ ~devOOBWrite /\ ~devOOBRead
           /\ \A n \in CallsOf("reducedSqueezeRow") : calls[n][2] \in 0..(nRows - 1)
           /\ \A n \in CallsOf("absorbBlock") :
                 calls[n][2] >= 0 /\ RowOfBlock(calls[n][2]) \in 0..(nRows - 1)

====
